---- MODULE Spec2Model ----
(***************************************************************************)
(* A model of backup.py, the terminology-server backup script: for every   *)
(* configured resource type it walks the paged listing of the server,      *)
(* downloads every listed resource into <out_dir>/<today>/<type>/, then     *)
(* optionally creates a tarball of the day's directory and removes the     *)
(* dated directories that are delete_days or more days old.                *)
(***************************************************************************)
EXTENDS Integers, Sequences, FiniteSets, TLC

(* ------------------------------ bounds -------------------------------- *)

\* listing pages the server holds per resource type (page 1 is the type's URL)
MaxPages == 2
\* resources the server holds per resource type, split over the pages
MaxResources == 2
\* largest --parallel value tried
MaxParallel == 2
\* largest --delete-days value tried
MaxDeleteDays == 2

(* --------------------------- configuration ---------------------------- *)

\* args.resource_types, in the order they are backed up
ResourceTypes == <<"CodeSystem", "ValueSet">>

\* the day the process starts on, as a day number
StartDay == MaxDeleteDays + 1

Pages == 1..MaxPages
Days == 0..(StartDay + 1)

Idle == [stage |-> "idle"]
\* the listing of a directory that does not exist
NoDir == {<<"no such directory">>}
\* no task queued, no result posted, no tarball written
NoTask == [stage |-> "none"]
NoResult == "none"
NoTar == [exists |-> FALSE, members |-> <<>>, replaced |-> FALSE]

(* ------------------------------- state -------------------------------- *)

VARIABLES
    args,              \* the parsed arguments: parallel, tarball, delete_days
    today,             \* the global run date, set once in __main__
    pc,                \* where the main process is
    error,             \* the exception that ended the run, "none" while there is none
    ti,                \* index into args.resource_types of the type being backed up
    server,            \* the listing pages the server has served for this type
    next_link,         \* get_resource_urls_from_server: the page to request, 0 for ""
    bundle_responses,  \* the descriptors gathered so far (resource_list afterwards)
    ri,                \* index into resource_list of the next descriptor
    dl,                \* per executor (0: main process, 1..: pool workers): its download
    task,              \* the task pool.apply has queued and no worker has taken yet
    result,            \* the result a worker has posted and main has not yet read
    folders,           \* the names listed in out_dir, or NoDir
    typeDirs,          \* the resource-type directories under out_dir/today
    files,             \* the files under out_dir/today/<type>/: path -> content
    tar,               \* out_dir/today/today.tar.gz: whether it exists, and its members
    folder_names,      \* remove_old_directories: the listing of out_dir it took
    to_delete,         \* remove_old_directories: the candidates not yet handled
    reported,          \* the candidates whose PermissionError was printed to stderr
    removed,           \* history: the names shutil.rmtree has removed from out_dir
    listed,            \* history: <<type, descriptor>> pairs returned by a finished walk
    listing_failed,    \* history: the types a listing GET of which returned a non-200 status
    ended,             \* history: <<type, resource_id>> -> "ok" or the error of its download
    clock,             \* the day of the wall clock
    run,               \* 1, or 2 when the script was started again on the same day
    files1,            \* history: the files the first fetch phase of the day has left
    listed1            \* history: what the walks of the first fetch phase have returned

vars == <<args, today, pc, error, ti, server, next_link, bundle_responses, ri, dl,
          task, result, folders, typeDirs, files, tar, folder_names, to_delete,
          reported, removed, listed, listing_failed, ended, clock, run, files1,
          listed1>>

walkVars == <<server, next_link, bundle_responses>>
poolVars == <<dl, task, result>>
fsVars == <<folders, typeDirs, files, tar>>
pruneVars == <<folder_names, to_delete, reported, removed>>
histVars == <<listed, listing_failed, ended>>
runVars == <<clock, run, files1, listed1>>

(* --------------------------- names and dates -------------------------- *)

\* date.isoformat(): the folder name of a day
isoformat(d) == <<"date", d>>

\* a name of the output root that is no ISO date
OtherName == <<"name", "lost+found">>

\* the names earlier runs and other programs may have left in out_dir
OldNames == {isoformat(d) : d \in Days \ {StartDay}} \cup {OtherName}

\* the tarball an earlier run of the same day has left in out_dir/today
PriorTar ==
    [exists |-> TRUE,
     members |-> (<<isoformat(StartDay), <<"earlier">>, <<>>>> :> <<"dir">>),
     replaced |-> FALSE]

\* date.fromisoformat(fn): the day, or a ValueError for any other string
fromisoformat(fn) ==
    IF fn[1] = "date" THEN [ok |-> TRUE, date |-> fn[2]]
                      ELSE [ok |-> FALSE, date |-> -1]

(* ------------------------------- strings ------------------------------ *)

\* A string is a sequence of tokens. A token is one character, or a run of letters
\* and digits that is never split (a type name, a number, "None"), or an ISO date,
\* whose hyphens stand singly between digits.

\* the characters of resource ids and titles that are no letters, digits or "_"
Punctuation == {".", "!"}
Separators == {"-", " "}

\* str(today) within a file name
DateToken(iso) == iso[1] \o ToString(iso[2])

\* unicodedata.normalize('NFKD', c).encode('ascii', 'ignore'): a letter with a
\* diacritic keeps its base letter, any other non-ASCII character is dropped
ToAscii(c) ==
    CASE c = "é" -> <<"e">>
      [] c = "ø" -> <<>>
      [] OTHER -> <<c>>

RECURSIVE Normalize(_)
Normalize(value) ==
    IF value = <<>> THEN <<>> ELSE ToAscii(Head(value)) \o Normalize(Tail(value))

\* str.lower()
lower(c) ==
    CASE c = "A" -> "a"
      [] c = "B" -> "b"
      [] c = "CodeSystem" -> "codesystem"
      [] c = "ValueSet" -> "valueset"
      [] c = "None" -> "none"
      [] OTHER -> c

\* the characters re.sub(r'[^\w\s-]', '', ...) keeps
IsWordSpaceOrHyphen(c) == c \notin Punctuation

RECURSIVE DropSeparators(_)
DropSeparators(value) ==
    IF value # <<>> /\ Head(value) \in Separators THEN DropSeparators(Tail(value))
    ELSE value

\* re.sub(r'[-\s]+', '-', value): every run of hyphens and spaces becomes one hyphen
RECURSIVE Collapse(_)
Collapse(value) ==
    IF value = <<>> THEN <<>>
    ELSE IF Head(value) \in Separators
         THEN <<"-">> \o Collapse(DropSeparators(Tail(value)))
         ELSE <<Head(value)>> \o Collapse(Tail(value))

RECURSIVE LStrip(_)
LStrip(value) ==
    IF value # <<>> /\ Head(value) \in {"-", "_"} THEN LStrip(Tail(value)) ELSE value

RECURSIVE RStrip(_)
RStrip(value) ==
    IF value # <<>> /\ value[Len(value)] \in {"-", "_"}
    THEN RStrip(SubSeq(value, 1, Len(value) - 1))
    ELSE value

\* .strip('-_')
Strip(value) == RStrip(LStrip(value))

\* slugify(value), allow_unicode=False
slugify(value) ==
    LET ascii == Normalize(value)
        lowered == [i \in 1..Len(ascii) |-> lower(ascii[i])]
        kept == SelectSeq(lowered, IsWordSpaceOrHyphen)
    IN  Strip(Collapse(kept))

(* ------------------------------ the server ---------------------------- *)

\* the listing entry of the n-th resource of a type: the server has numbered it
Entry(n) ==
    [fullUrl |-> n, resource |-> [id |-> <<ToString(n)>>, url |-> <<"canonical", n>>]]

\* n entries, of the resources after the first base resources of the type
Entries(base, n) == [i \in 1..n |-> Entry(base + i)]

\* resource ids and names a server may give: ids of the characters FHIR allows
\* ([A-Za-z0-9.-]), names of any characters
IdStrings == {<<"a">>, <<"A">>, <<"a", "b">>, <<"a", ".", "b">>, <<"a", "-", "b">>}
Names == {<<"b">>, <<"B", " ", "é", "!">>}

\* the listing entry of the n-th resource of a type, with an id and a name of its own
NamedEntry(n, id, name) ==
    [fullUrl |-> n, resource |-> [id |-> id, name |-> name, url |-> <<"canonical", n>>]]

\* the same without a name
UnnamedEntry(n, id) ==
    [fullUrl |-> n, resource |-> [id |-> id, url |-> <<"canonical", n>>]]

\* the entries the n-th resource may have
EntriesOf(n, ids) ==
    {NamedEntry(n, id, name) : id \in ids, name \in Names}
        \cup {UnnamedEntry(n, id) : id \in ids}

SelfLink(p) == [relation |-> "self", url |-> p]
NextLink(q) == [relation |-> "next", url |-> q]

\* the link collections page p may carry: without or with a next relation
LinkLists(p) ==
    {<<SelfLink(p)>>} \cup {<<SelfLink(p), NextLink(q)>> : q \in Pages}

\* the JSON bodies page p may have when the pages before it hold base resources:
\* the keys "entry" and "link" are each optional, resource ids are never repeated
Bundles(p, base) ==
    LET es == {Entries(base, n) : n \in 0..(MaxResources - base)}
        ls == LinkLists(p)
    IN  {[entry |-> e, link |-> l] : e \in es, l \in ls}
        \cup {[resourceType |-> "Bundle", link |-> l] : l \in ls}
        \cup {[resourceType |-> "Bundle", entry |-> e] : e \in es}
        \cup {[resourceType |-> "Bundle"]}

RECURSIVE Held(_, _)
\* the resources the pages of srv hold
Held(srv, ps) ==
    IF ps = {} THEN 0
    ELSE LET p == CHOOSE x \in ps : TRUE
         IN  (IF "entry" \in DOMAIN srv[p] THEN Len(srv[p]["entry"]) ELSE 0)
                 + Held(srv, ps \ {p})

(* --------------------------- pure functions --------------------------- *)

Returned(v) == [raised |-> "none", value |-> v]
Raised(kind) == [raised |-> kind, value |-> 0]

\* the set of outcomes of one GET: a non-200 status, or status 200 with one of bodies
Responses(bodies) ==
    {[status_code |-> 500, json |-> <<>>]}
        \cup {[status_code |-> 200, json |-> b] : b \in bodies}

\* a variant that swallows the HTTP error and hands back a bundle without entries
perform_request_as_json_lenient(rx) ==
    IF rx.status_code # 200 THEN Returned([resourceType |-> "Bundle", link |-> <<>>])
                            ELSE Returned(rx.json)

\* perform_request_as_json: the JSON body, or ValueError on a status other than 200
perform_request_as_json(rx) ==
    IF rx.status_code # 200 THEN Raised("ValueError") ELSE Returned(rx.json)

IsNext(link) == link["relation"] = "next"

\* bundle_json_get_next_link: the url of the first "next" link, 0 (for "") when
\* there is none, KeyError when the bundle has no "link" key
bundle_json_get_next_link(bundle_json) ==
    IF "link" \notin DOMAIN bundle_json THEN Raised("KeyError")
    ELSE LET filtered_link == SelectSeq(bundle_json["link"], IsNext)
         IN  IF Len(filtered_link) > 0 THEN Returned(filtered_link[1]["url"])
                                        ELSE Returned(0)

BundleResponse(entry) ==
    [resource_id |-> entry["resource"]["id"],
     title |-> IF "name" \in DOMAIN entry["resource"]
               THEN entry["resource"]["name"] ELSE <<"None">>,
     canonical_url |-> entry["resource"]["url"],
     url |-> entry["fullUrl"],
     version |-> IF "version" \in DOMAIN entry["resource"]
                 THEN entry["resource"]["version"] ELSE "None"]

\* a variant whose loop starts at the second entry
bundle_json_to_bundle_response_list_from_second(bundle_json) ==
    IF "entry" \notin DOMAIN bundle_json THEN <<>>
    ELSE [i \in 1..(Len(bundle_json["entry"]) - 1) |->
            BundleResponse(bundle_json["entry"][i + 1])]

\* bundle_json_to_bundle_response_list: one BundleResponse per entry, in order
bundle_json_to_bundle_response_list(bundle_json) ==
    IF "entry" \notin DOMAIN bundle_json THEN <<>>
    ELSE [i \in 1..Len(bundle_json["entry"]) |-> BundleResponse(bundle_json["entry"][i])]

(* ------------------------------ the run ------------------------------- *)

NoError == [kind |-> "none", at |-> "none"]

\* a variant in which remove_old_directories is still run after an exception
Raise_then_remove(kind, at) ==
    /\ pc' = "prune"
    /\ error' = [kind |-> kind, at |-> at]

\* an uncaught exception ends the process
Raise(kind, at) ==
    /\ pc' = "exit"
    /\ error' = [kind |-> kind, at |-> at]

resource_type == ResourceTypes[ti]

max(a, b) == IF a >= b THEN a ELSE b

\* parse_args, lines 72-74: the values given on the command line, clamped
parse_args(parallel, tarball, delete_days) ==
    [parallel |-> max(parallel, 1), tarball |-> tarball,
     delete_days |-> max(delete_days, 0)]

Init ==
    /\ args \in {parse_args(p, t, d) :
                   p \in 0..MaxParallel, t \in BOOLEAN, d \in (-1)..MaxDeleteDays}
    /\ clock = StartDay
    /\ today = clock
    /\ pc = "types"
    /\ error = NoError
    /\ ti = 1
    /\ server = <<>>
    /\ next_link = 0
    /\ bundle_responses = <<>>
    /\ ri = 1
    /\ dl = [e \in 0..MaxParallel |-> Idle]
    /\ task = NoTask
    /\ result = NoResult
    /\ folders \in {NoDir, {}, {isoformat(today)}}
    /\ typeDirs = {}
    /\ files = <<>>
    /\ tar \in IF isoformat(today) \in folders THEN {NoTar, PriorTar} ELSE {NoTar}
    /\ folder_names = {}
    /\ to_delete = <<>>
    /\ reported = {}
    /\ removed = {}
    /\ listed = {}
    /\ listing_failed = {}
    /\ ended = <<>>
    /\ run = 1
    /\ files1 = <<>>
    /\ listed1 = {}

\* download_all_resource_types, line 250: the next resource type, and the start of
\* get_resource_urls_from_server for it (lines 126-128)
NextType ==
    /\ pc = "types"
    /\ ti <= Len(ResourceTypes)
    /\ pc' = "walk"
    /\ next_link' = 1
    /\ bundle_responses' = <<>>
    /\ server' = <<>>
    /\ UNCHANGED <<args, today, error, ti, ri>>
    /\ UNCHANGED <<poolVars, fsVars, pruneVars, histVars>>
    /\ UNCHANGED runVars

\* get_resource_urls_from_server, lines 130-136: one iteration of the while loop,
\* and the return when next_link has become "". A page the server has served stays
\* as it was served. The list grows without bound in a walk that repeats a page:
\* such a walk is followed until the list is longer than any list of distinct
\* resources.
WalkPage ==
    /\ pc = "walk"
    /\ next_link # 0
    /\ Len(bundle_responses) <= MaxResources
    /\ \E rx \in Responses(IF next_link \in DOMAIN server
                           THEN {server[next_link]}
                           ELSE Bundles(next_link, Held(server, DOMAIN server))) :
         LET got == perform_request_as_json(rx) IN
         /\ listing_failed' = IF rx.status_code # 200
                               THEN listing_failed \cup {resource_type}
                               ELSE listing_failed
         /\ IF got.raised # "none"
            THEN /\ Raise(got.raised, "listing")
                 /\ UNCHANGED <<walkVars, listed>>
            ELSE
              LET bundle_json == got.value
                  responses == bundle_responses
                                 \o bundle_json_to_bundle_response_list(bundle_json)
                  link == bundle_json_get_next_link(bundle_json)
              IN  /\ server' = (next_link :> bundle_json) @@ server
                  /\ bundle_responses' = responses
                  /\ IF link.raised # "none"
                     THEN /\ Raise(link.raised, "listing")
                          /\ UNCHANGED <<next_link, listed>>
                     ELSE /\ next_link' = link.value
                          /\ error' = error
                          /\ IF link.value = 0
                             THEN /\ pc' = "listed"
                                  /\ listed' = listed \cup
                                       {<<resource_type, responses[i]>> :
                                            i \in 1..Len(responses)}
                             ELSE /\ pc' = "walk"
                                  /\ listed' = listed
    /\ UNCHANGED <<args, today, ti, ri, ended>>
    /\ UNCHANGED <<poolVars, fsVars, pruneVars>>
    /\ UNCHANGED runVars

resource_list == bundle_responses

\* out_dir of a resource type, relative to args.out_dir: <today>/<resource_type>
TypeDir(day, type) == <<isoformat(day), type>>

\* a variant that asks the wall clock for the date of every file name
target_filename_of_clock(type, r) ==
    <<type, "-">> \o r.resource_id \o <<"_">> \o r.title
        \o <<"_", DateToken(isoformat(clock))>>

\* a variant that leaves the resource id out of the file name
target_filename_by_title(type, r) ==
    <<type, "_">> \o r.title \o <<"_", DateToken(isoformat(today))>>

\* download_resource, line 195: f"{resource_type}-{r.resource_id}_{r.title}_{today}"
target_filename(type, r) ==
    <<type, "-">> \o r.resource_id \o <<"_">> \o r.title
        \o <<"_", DateToken(isoformat(today))>>

\* a variant that numbers the file names by the run of the day that wrote them
target_abspath_numbered(type, r, out_dir) ==
    <<out_dir, slugify(target_filename(type, r)) \o <<"_", ToString(run), ".json">>>>

\* download_resource, line 196: the path the resource r is written to
target_abspath(type, r, out_dir) ==
    <<out_dir, slugify(target_filename(type, r)) \o <<".json">>>>

\* the JSON the server returns for the resource at url
ResourceJson(type, url) == [resourceType |-> type, id |-> url]

\* a file opened with mode "w" and not yet written: empty on disk
Truncated == [truncated |-> TRUE]

\* the call download_resource_to_file(resource_type, r, out_dir) as executor e begins it
Call(type, r, out_dir) ==
    [stage |-> "get", resource_type |-> type, r |-> r, out_dir |-> out_dir]

\* download_all_resource_types, lines 254-260 and 266: nothing listed, or the
\* directory of the type is made and the sequential loop or the pool is entered.
\* The walk is over: the pages the server served for it are forgotten.
Listed ==
    /\ pc = "listed"
    /\ IF Len(resource_list) = 0
       THEN /\ ti' = ti + 1
            /\ pc' = "types"
            /\ UNCHANGED <<ri, folders, typeDirs>>
       ELSE /\ folders' = (IF folders = NoDir THEN {} ELSE folders)
                            \cup {isoformat(today)}
            /\ typeDirs' = typeDirs \cup {resource_type}
            /\ ri' = 1
            /\ ti' = ti
            /\ pc' = IF args.parallel = 1 THEN "seq" ELSE "pool"
    /\ server' = <<>>
    /\ UNCHANGED <<args, today, error, files, tar, next_link, bundle_responses>>
    /\ UNCHANGED <<poolVars, pruneVars, histVars>>
    /\ UNCHANGED runVars

\* line 263: the main process calls download_resource_to_file itself
SeqCall ==
    /\ pc = "seq"
    /\ ri <= Len(resource_list)
    /\ dl[0] = Idle
    /\ dl' = [dl EXCEPT ![0] = Call(resource_type, resource_list[ri],
                                     TypeDir(today, resource_type))]
    /\ UNCHANGED <<args, today, pc, error, ti, ri, task, result>>
    /\ UNCHANGED <<walkVars, fsVars, pruneVars, histVars>>
    /\ UNCHANGED runVars

\* lines 262-264 exhausted: on to the next resource type
SeqDone ==
    /\ pc = "seq"
    /\ ri > Len(resource_list)
    /\ dl[0] = Idle
    /\ ti' = ti + 1
    /\ pc' = "types"
    /\ UNCHANGED <<args, today, error, ri>>
    /\ UNCHANGED <<walkVars, poolVars, fsVars, pruneVars, histVars>>
    /\ UNCHANGED runVars

\* a variant with pool.apply_async: the task is queued and the loop goes on
PoolApply_async ==
    /\ pc = "pool"
    /\ ri <= Len(resource_list)
    /\ task = NoTask
    /\ task' = Call(resource_type, resource_list[ri], TypeDir(today, resource_type))
    /\ ri' = ri + 1
    /\ UNCHANGED <<args, today, pc, error, ti, dl, result>>
    /\ UNCHANGED <<walkVars, fsVars, pruneVars, histVars>>
    /\ UNCHANGED runVars

\* line 267, pool.apply: the task is queued and the main process blocks on its result
PoolApply ==
    /\ pc = "pool"
    /\ ri <= Len(resource_list)
    /\ task = NoTask
    /\ task' = Call(resource_type, resource_list[ri], TypeDir(today, resource_type))
    /\ pc' = "wait"
    /\ UNCHANGED <<args, today, error, ti, ri, dl, result>>
    /\ UNCHANGED <<walkVars, fsVars, pruneVars, histVars>>
    /\ UNCHANGED runVars

\* a pool worker that is free takes the queued task
WorkerTake(e) ==
    /\ e \in 1..args.parallel
    /\ task # NoTask
    /\ dl[e] = Idle
    /\ dl' = [dl EXCEPT ![e] = task]
    /\ task' = NoTask
    /\ UNCHANGED <<args, today, pc, error, ti, ri, result>>
    /\ UNCHANGED <<walkVars, fsVars, pruneVars, histVars>>
    /\ UNCHANGED runVars

\* the download of executor e ends with outcome kind ("ok" or the exception raised):
\* in the main process the exception propagates, a worker posts it as its result
Finish(e, kind) ==
    /\ dl' = [dl EXCEPT ![e] = Idle]
    /\ ended' = (<<dl[e].resource_type, dl[e].r.resource_id>> :> kind) @@ ended
    /\ IF e = 0
       THEN /\ result' = result
            /\ IF kind = "ok"
               THEN /\ ri' = ri + 1
                    /\ UNCHANGED <<pc, error>>
               ELSE /\ Raise(kind, "download")
                    /\ ri' = ri
       ELSE /\ result' = kind
            /\ UNCHANGED <<pc, error, ri>>

\* download_resource, lines 193-197: the GET of r.url, then open(target, "w")
DownloadGet(e) ==
    /\ dl[e].stage = "get"
    /\ \E rx \in Responses({ResourceJson(dl[e].resource_type, dl[e].r.url)}) :
         LET got == perform_request_as_json(rx)
             target == target_abspath(dl[e].resource_type, dl[e].r, dl[e].out_dir)
         IN  IF got.raised # "none"
             THEN /\ Finish(e, got.raised)
                  /\ files' = files
             ELSE \/ /\ files' = (target :> Truncated) @@ files
                     /\ dl' = [dl EXCEPT ![e].stage = "dump"]
                     /\ UNCHANGED <<pc, error, ri, result, ended>>
                  \/ /\ Finish(e, "OSError")
                     /\ files' = files
    /\ UNCHANGED <<args, today, ti, task, folders, typeDirs, tar, listed, listing_failed>>
    /\ UNCHANGED <<walkVars, pruneVars>>
    /\ UNCHANGED runVars

\* download_resource, lines 198-200: json.dump into the open file, and its close
DownloadDump(e) ==
    /\ dl[e].stage = "dump"
    /\ LET target == target_abspath(dl[e].resource_type, dl[e].r, dl[e].out_dir)
           rx == ResourceJson(dl[e].resource_type, dl[e].r.url)
       IN  \/ /\ files' = [files EXCEPT ![target] = rx]
              /\ Finish(e, "ok")
           \/ /\ files' = files
              /\ Finish(e, "OSError")
    /\ UNCHANGED <<args, today, ti, task, folders, typeDirs, tar, listed, listing_failed>>
    /\ UNCHANGED <<walkVars, pruneVars>>
    /\ UNCHANGED runVars

\* pool.apply returns the worker's result, or raises the worker's exception again
PoolResult ==
    /\ pc = "wait"
    /\ result # NoResult
    /\ result' = NoResult
    /\ IF result = "ok"
       THEN /\ ri' = ri + 1
            /\ pc' = "pool"
            /\ error' = error
       ELSE /\ Raise(result, "download")
            /\ ri' = ri
    /\ UNCHANGED <<args, today, ti, dl, task>>
    /\ UNCHANGED <<walkVars, fsVars, pruneVars, histVars>>
    /\ UNCHANGED runVars

\* line 268, pool.close(), after the list comprehension: on to the next type
PoolClose ==
    /\ pc = "pool"
    /\ ri > Len(resource_list)
    /\ ti' = ti + 1
    /\ pc' = "types"
    /\ UNCHANGED <<args, today, error, ri>>
    /\ UNCHANGED <<walkVars, poolVars, fsVars, pruneVars, histVars>>
    /\ UNCHANGED runVars

\* line 250 exhausted: download_all_resource_types returns, line 307 is next.
\* What earlier runs and other programs have left in out_dir, which the downloads
\* never look at, is settled here.
TypesDone ==
    /\ pc = "types"
    /\ ti > Len(ResourceTypes)
    /\ pc' = "tarball"
    /\ \E old \in SUBSET OldNames :
         folders' = IF folders = NoDir THEN NoDir ELSE folders \cup old
    /\ UNCHANGED <<args, today, error, ti, ri, typeDirs, files, tar>>
    /\ UNCHANGED <<walkVars, poolVars, pruneVars, histVars>>
    /\ UNCHANGED runVars

(* ------------------------------ archiving ----------------------------- *)

tar_filename == <<isoformat(today), ".tar.gz">>

\* listdir(out_dir/today): the type directories and the tarball, when there is one
ListRunDir == {<<t>> : t \in typeDirs} \cup (IF tar.exists THEN {tar_filename} ELSE {})

\* a variant without the filter on the name of the tarball
file_list_unfiltered == ListRunDir

\* line 293: the entries of out_dir/today but for the tarball
file_list == {f \in ListRunDir : f # tar_filename}

\* tar.add(f, arcname): the entry f itself under today/f and, when f is a directory,
\* every file under it: arcname -> content
TarMembers(f) ==
    IF f = tar_filename THEN (<<isoformat(today), f, <<>>>> :> <<"file">>)
    ELSE
      LET under == {q \in DOMAIN files : q[1] = TypeDir(today, f[1])}
      IN  (<<isoformat(today), f, <<>>>> :> <<"dir">>)
              @@ [a \in {<<isoformat(today), f, q[2]>> : q \in under} |->
                    files[<<TypeDir(today, f[1]), a[3]>>]]

RECURSIVE TarAll(_)
TarAll(fs) ==
    IF fs = {} THEN <<>>
    ELSE LET f == CHOOSE x \in fs : TRUE IN TarMembers(f) @@ TarAll(fs \ {f})

\* create_tarball, lines 284-297
CreateTarball ==
    /\ pc = "tarball"
    /\ IF ~args.tarball
       THEN /\ pc' = "prune"
            /\ UNCHANGED <<error, tar>>
       ELSE IF folders = NoDir \/ isoformat(today) \notin folders
            THEN /\ Raise("FileNotFoundError", "tarball")
                 /\ tar' = tar
            ELSE /\ tar' = [exists |-> TRUE, members |-> TarAll(file_list),
                             replaced |-> tar.exists]
                 /\ pc' = "prune"
                 /\ error' = error
    /\ UNCHANGED <<args, today, ti, ri, folders, typeDirs, files>>
    /\ UNCHANGED <<walkVars, poolVars, pruneVars, histVars>>
    /\ UNCHANGED runVars

(* ------------------------------- pruning ------------------------------ *)

\* a variant whose cutoff is one day later
cutoff_date_one_later == today - args.delete_days + 1

\* timedelta arithmetic on day numbers
cutoff_date == today - args.delete_days

\* sorted(): the ISO date names in ascending order, which is the order of their days
RECURSIVE Sorted(_)
Sorted(names) ==
    IF names = {} THEN <<>>
    ELSE LET lo == CHOOSE n \in names : \A m \in names : n[2] <= m[2]
         IN  <<lo>> \o Sorted(names \ {lo})

\* a variant of the guard that lets delete_days = 0 through
RemovalDisabled_negative == args.delete_days < 0

\* line 224
RemovalDisabled == args.delete_days <= 0

\* remove_old_directories, lines 221-234: the guard, the listing and the candidates
RemoveOldDirectories ==
    /\ pc = "prune"
    /\ IF RemovalDisabled
       THEN /\ pc' = "exit"
            /\ UNCHANGED <<error, folder_names, to_delete>>
       ELSE IF folders = NoDir
            THEN /\ Raise("FileNotFoundError", "prune")
                 /\ UNCHANGED <<folder_names, to_delete>>
            ELSE /\ folder_names' = folders
                 /\ IF \E fn \in folder_names' : ~fromisoformat(fn).ok
                    THEN /\ Raise("ValueError", "prune")
                         /\ to_delete' = to_delete
                    ELSE /\ to_delete' = Sorted({fn \in folder_names' :
                                            fromisoformat(fn).date <= cutoff_date})
                         /\ pc' = "delete"
                         /\ error' = error
    /\ UNCHANGED <<args, today, ti, ri, reported, removed, folders, typeDirs, files, tar>>
    /\ UNCHANGED <<walkVars, poolVars, histVars>>
    /\ UNCHANGED runVars

\* shutil.rmtree(out_dir/fn): the folder and everything under it is gone
Rmtree(fn) ==
    /\ folders' = folders \ {fn}
    /\ removed' = removed \cup {fn}
    /\ IF fn = isoformat(today)
       THEN /\ typeDirs' = {}
            /\ files' = <<>>
            /\ tar' = NoTar
       ELSE UNCHANGED <<typeDirs, files, tar>>

\* a variant whose except clause prints the PermissionError and raises it again
RemoveOne_reraise ==
    /\ pc = "delete"
    /\ to_delete # <<>>
    /\ LET fn == Head(to_delete)
       IN  \/ /\ Rmtree(fn)
              /\ reported' = reported
              /\ UNCHANGED <<pc, error>>
           \/ /\ reported' = reported \cup {fn}
              /\ Raise("PermissionError", "prune")
              /\ UNCHANGED <<fsVars, removed>>
    /\ to_delete' = Tail(to_delete)
    /\ UNCHANGED <<args, today, ti, ri, folder_names>>
    /\ UNCHANGED <<walkVars, poolVars, histVars>>
    /\ UNCHANGED runVars

\* lines 235-245: one candidate is removed, or its PermissionError is caught and printed
RemoveOne ==
    /\ pc = "delete"
    /\ to_delete # <<>>
    /\ LET fn == Head(to_delete)
       IN  \/ /\ Rmtree(fn)
              /\ reported' = reported
           \/ /\ reported' = reported \cup {fn}
              /\ UNCHANGED <<fsVars, removed>>
    /\ to_delete' = Tail(to_delete)
    /\ UNCHANGED <<args, today, pc, error, ti, ri, folder_names>>
    /\ UNCHANGED <<walkVars, poolVars, histVars>>
    /\ UNCHANGED runVars

\* the loop of line 235 is exhausted: remove_old_directories returns, the run ends
RemoveDone ==
    /\ pc = "delete"
    /\ to_delete = <<>>
    /\ pc' = "exit"
    /\ UNCHANGED <<args, today, error, ti, ri>>
    /\ UNCHANGED <<walkVars, poolVars, fsVars, pruneVars, histVars>>
    /\ UNCHANGED runVars

(* --------------------------- the specification ------------------------ *)

\* the steps of download_all_resource_types
FetchPhase ==
    \/ NextType
    \/ WalkPage
    \/ Listed
    \/ SeqCall
    \/ SeqDone
    \/ PoolApply
    \/ \E e \in 1..MaxParallel : WorkerTake(e)
    \/ \E e \in 0..MaxParallel : DownloadGet(e)
    \/ \E e \in 0..MaxParallel : DownloadDump(e)
    \/ PoolResult
    \/ PoolClose

Next ==
    \/ FetchPhase
    \/ TypesDone
    \/ CreateTarball
    \/ RemoveOldDirectories
    \/ RemoveOne
    \/ RemoveDone

Spec == Init /\ [][Next]_vars

\* the wall clock passes midnight while the process runs
Tick ==
    /\ pc # "exit"
    /\ clock + 1 \in Days
    /\ clock' = clock + 1
    /\ UNCHANGED <<args, today, pc, error, ti, ri, run, files1, listed1>>
    /\ UNCHANGED <<walkVars, poolVars, fsVars, pruneVars, histVars>>

\* the run, with a wall clock that goes on
ClockSpec == Init /\ [][Next \/ Tick]_vars

\* download_all_resource_types has returned and is called once more on the same day
\* with the same arguments: what the first call has left is kept for comparison
Refetch ==
    /\ pc = "types"
    /\ ti > Len(ResourceTypes)
    /\ run = 1
    /\ run' = 2
    /\ files1' = files
    /\ listed1' = listed
    /\ listed' = {}
    /\ ended' = <<>>
    /\ ti' = 1
    /\ UNCHANGED <<args, today, pc, error, ri, listing_failed, clock>>
    /\ UNCHANGED <<walkVars, poolVars, fsVars, pruneVars>>

\* the fetch phase of a run against a server whose first type has one page with two
\* resources, of ids and names of their own: the walk of that type is about to
\* request the page
SlugInit ==
    /\ args \in {parse_args(p, FALSE, 0) : p \in 0..MaxParallel}
    /\ clock = StartDay
    /\ today = clock
    /\ pc = "walk"
    /\ error = NoError
    /\ ti = 1
    /\ \E id1 \in IdStrings : \E id2 \in IdStrings \ {id1} :
         \E e1 \in EntriesOf(1, {id1}) : \E e2 \in EntriesOf(2, {id2}) :
           server = (1 :> [resourceType |-> "Bundle", entry |-> <<e1, e2>>,
                           link |-> <<SelfLink(1)>>])
    /\ next_link = 1
    /\ bundle_responses = <<>>
    /\ ri = 1
    /\ dl = [e \in 0..MaxParallel |-> Idle]
    /\ task = NoTask
    /\ result = NoResult
    /\ folders = {}
    /\ typeDirs = {}
    /\ files = <<>>
    /\ tar = NoTar
    /\ folder_names = {}
    /\ to_delete = <<>>
    /\ reported = {}
    /\ removed = {}
    /\ listed = {}
    /\ listing_failed = {}
    /\ ended = <<>>
    /\ run = 1
    /\ files1 = <<>>
    /\ listed1 = {}

SlugSpec == SlugInit /\ [][FetchPhase]_vars

\* the arguments create_tarball and remove_old_directories read are at their defaults
FetchInit == Init /\ ~args.tarball /\ args.delete_days = 0

\* the fetch phase alone, which may be gone through twice
RefetchSpec == FetchInit /\ [][FetchPhase \/ Refetch]_vars

\* the process is never suspended for good: it takes a step whenever it can
FairSpec == Spec /\ WF_vars(Next)

(* ------------------------------ properties ---------------------------- *)

PageEntries(bundle_json) ==
    IF "entry" \in DOMAIN bundle_json THEN bundle_json["entry"] ELSE <<>>

Count(x, seq) == Cardinality({i \in 1..Len(seq) : seq[i] = x})

InSeq(x, seq) == \E i \in 1..Len(seq) : seq[i] = x

\* the page a served page links to as next, 0 when it has no next link
NextOf(bundle_json) == bundle_json_get_next_link(bundle_json).value

\* the file the resource r of a type is written to holds the resource in full
Persisted(type, r) ==
    LET target == target_abspath(type, r, TypeDir(today, type))
    IN  /\ target \in DOMAIN files
        /\ files[target] = ResourceJson(type, r.url)

\* the download of the resource r of a type has ended with an error
Failed(type, r) ==
    /\ <<type, r.resource_id>> \in DOMAIN ended
    /\ ended[<<type, r.resource_id>>] # "ok"

NoDownloadInFlight ==
    /\ \A e \in 0..MaxParallel : dl[e] = Idle
    /\ task = NoTask
    /\ result = NoResult

\* create_tarball or remove_old_directories is about to run, runs or has run
ArchivingOrPruning ==
    \/ pc \in {"tarball", "prune", "delete"}
    \/ pc = "exit" /\ error.at \in {"none", "tarball", "prune"}

\* remove_old_directories has listed out_dir
Pruned == args.delete_days >= 1 /\ folders # NoDir /\ pc = "exit"
              /\ error.at \in {"none", "prune"}

DateNamed(names) == {fn \in names : fromisoformat(fn).ok}

\* the date-named entries of the listing that are delete_days or more days old
Candidates ==
    {fn \in DateNamed(folder_names) : fromisoformat(fn).date <= today - args.delete_days}

\* C1: when the walk of a type returns, the chain of pages was walked to its end
\* (a next link of a served page leads to a served page, zero entries or not) and the
\* descriptors returned are the entries of the served pages, each exactly once:
\* as many descriptors as the pages hold entries. The walk ends with an error only
\* when a GET has failed or a page has no link collection.
C1_PaginationComplete ==
    /\ pc = "listed" =>
          /\ \A p \in DOMAIN server :
               NextOf(server[p]) # 0 => NextOf(server[p]) \in DOMAIN server
          /\ Len(bundle_responses) = Held(server, DOMAIN server)
          /\ \A p \in DOMAIN server :
               \A i \in 1..Len(PageEntries(server[p])) :
                 Count(BundleResponse(PageEntries(server[p])[i]), bundle_responses) = 1
    /\ error.at = "listing" =>
          \/ resource_type \in listing_failed
          \/ \E p \in DOMAIN server : "link" \notin DOMAIN server[p]

\* a walk has returned all resources of the type although a page with zero entries
\* and a next link came before the page that holds them
C1_Witness ==
    /\ pc = "listed"
    /\ Len(bundle_responses) = MaxResources
    /\ \E p \in DOMAIN server :
         Len(PageEntries(server[p])) = 0 /\ NextOf(server[p]) # 0

\* C2: the walk of a type always comes to an end, whatever the next links point at
\* (or it has gathered more descriptors than the server holds resources, where the
\* model follows it no further).
C2_WalkTerminates ==
    (pc = "walk") ~> (pc # "walk" \/ Len(bundle_responses) > MaxResources)

\* C3: when the run has ended, every descriptor a walk returned either has its
\* resource persisted or has a failure recorded against it: a failed download does
\* not keep the other descriptors of the type from being downloaded.
C3_FailureIsolation ==
    pc = "exit" =>
        \A d \in listed : Persisted(d[1], d[2]) \/ Failed(d[1], d[2])

\* C4: from the start of create_tarball on, no download is queued, running or
\* awaiting collection, and the download of every descriptor listed has ended.
C4_OrderingBarrier ==
    ArchivingOrPruning =>
        /\ NoDownloadInFlight
        /\ \A d \in listed : <<d[1], d[2].resource_id>> \in DOMAIN ended

\* create_tarball is about to archive the resources a pool has downloaded
C4_Witness ==
    /\ pc = "tarball"
    /\ args.tarball
    /\ args.parallel > 1
    /\ Cardinality(listed) >= 2
    /\ \A d \in listed : Persisted(d[1], d[2])

\* C5: after remove_old_directories with delete_days >= 1, no date-named entry dated
\* today - delete_days or earlier is left in out_dir, and every date-named entry of
\* the listing dated later is still there (in a run without any PermissionError,
\* which keeps a candidate by design).
C5_RetentionBoundary ==
    (Pruned /\ reported = {}) =>
        \A fn \in DateNamed(folder_names) :
            (fn \in folders) <=> (fromisoformat(fn).date > today - args.delete_days)

\* C6: after remove_old_directories with delete_days >= 1 over a listing with a name
\* that is no ISO date, that name is still in out_dir and the pruner has finished
\* without an error, having handled every date-named candidate.
C6_NonDateIgnored ==
    (Pruned /\ OtherName \in folder_names) =>
        /\ OtherName \in folders
        /\ error = NoError
        /\ \A fn \in Candidates : fn \notin folders \/ fn \in reported

\* C7: once a PermissionError of a candidate was reported, the pruner goes on without
\* an error: every candidate is still to be handled, removed or reported, and when
\* the run has ended none is left to handle.
C7_PermissionIsolated ==
    reported # {} =>
        /\ pc \in {"delete", "exit"}
        /\ error = NoError
        /\ \A fn \in Candidates :
             InSeq(fn, to_delete) \/ fn \notin folders \/ fn \in reported
        /\ pc = "exit" => to_delete = <<>>

\* the run has ended, and a candidate was removed after the PermissionError of an
\* earlier one was reported
C7_Witness ==
    /\ pc = "exit"
    /\ \E a \in reported : \E b \in Candidates :
         /\ fromisoformat(a).date < fromisoformat(b).date
         /\ b \notin folders

\* C8: a type with a listing GET that returned a non-200 status ends the run with
\* the ValueError of that listing; none of its descriptors was returned by a walk,
\* no download of the type has run and no file of the type was written.
C8_ListingFailureAborts ==
    \A t \in listing_failed :
        /\ pc = "exit"
        /\ error = [kind |-> "ValueError", at |-> "listing"]
        /\ t = resource_type
        /\ \A d \in listed : d[1] # t
        /\ \A k \in DOMAIN ended : k[1] # t
        /\ \A q \in DOMAIN files : q[1] # TypeDir(today, t)

\* a listing GET failed after an earlier page of the same type had been served with
\* entries
C8_Witness ==
    /\ listing_failed # {}
    /\ DOMAIN server # {}
    /\ Len(bundle_responses) >= 1

\* C9: a served page without a link collection ends the walk at that page without
\* an error, and none of its entries is among the descriptors.
C9_MissingLinkEndsWalk ==
    \A p \in DOMAIN server :
        "link" \notin DOMAIN server[p] =>
            /\ pc = "listed"
            /\ error = NoError
            /\ \A i \in 1..Len(PageEntries(server[p])) :
                 Count(BundleResponse(PageEntries(server[p])[i]), bundle_responses) = 0

\* every type was listed and every download has succeeded
FetchSucceeded ==
    /\ ti > Len(ResourceTypes)
    /\ listing_failed = {}
    /\ \A k \in DOMAIN ended : ended[k] = "ok"

\* C10: a run whose listings and downloads have all succeeded ends without an error,
\* after create_tarball and remove_old_directories.
C10_RunCompletes ==
    (pc = "exit" /\ FetchSucceeded) => error = NoError

\* the members a tarball of out_dir/today holds when it holds every type directory
\* and every file under one, and nothing else
ExpectedMembers ==
    {<<isoformat(today), <<t>>, <<>>>> : t \in typeDirs}
        \cup {<<isoformat(today), <<q[1][2]>>, q[2]>> : q \in DOMAIN files}

\* C11: create_tarball leaves out_dir/today and the files under it as they are. With
\* --tarball the tarball it writes holds exactly the entries of out_dir/today and
\* what is under them, each under a name that begins with today and with the content
\* of its file, and no member is the tarball of that name, whether one was there
\* before or not. Without --tarball it changes nothing.
C11_ArchiveFrame ==
    [][pc = "tarball" =>
         /\ folders' = folders
         /\ typeDirs' = typeDirs
         /\ files' = files
         /\ ~args.tarball => tar' = tar
         /\ (args.tarball /\ pc' = "prune") =>
               /\ tar'.exists
               /\ DOMAIN tar'.members = ExpectedMembers
               /\ \A a \in DOMAIN tar'.members :
                     a[1] = isoformat(today) /\ a[2] # tar_filename
               /\ \A q \in DOMAIN files :
                     tar'.members[<<isoformat(today), <<q[1][2]>>, q[2]>>] = files[q]
      ]_vars

\* create_tarball has written the tarball over the one an earlier run of the day had
\* left, from the files of two types
C11_Witness ==
    /\ pc = "prune"
    /\ tar.exists
    /\ tar.replaced
    /\ Cardinality(typeDirs) = 2
    /\ Cardinality(DOMAIN files) >= 2

\* C12: with delete_days = 0 remove_old_directories returns without an error and
\* leaves out_dir and everything under it as it was, whatever names out_dir holds.
C12_ZeroRetentionNoOp ==
    [][(args.delete_days = 0 /\ pc \in {"prune", "delete"}) =>
          /\ fsVars' = fsVars
          /\ removed' = removed
          /\ error' = error
          /\ pc' = "exit"
      ]_vars

\* remove_old_directories has returned with delete_days = 0 from an out_dir that holds
\* today's files, the oldest dated folder and a name that is no date
C12_Witness ==
    /\ pc = "exit"
    /\ error = NoError
    /\ args.delete_days = 0
    /\ {isoformat(0), isoformat(today), OtherName} \subseteq folders
    /\ DOMAIN files # {}

\* executor e is between open(target, "w") and the end of json.dump for the path q
Writing(e, q) ==
    /\ dl[e].stage = "dump"
    /\ target_abspath(dl[e].resource_type, dl[e].r, dl[e].out_dir) = q

\* C13: a file that is under out_dir while no download is writing it holds the
\* complete body of its resource: a download that has ended, with or without an
\* error, has left the complete file or no file.
C13_AllOrNothingWrite ==
    \A q \in DOMAIN files :
        files[q] = Truncated => \E e \in 0..MaxParallel : Writing(e, q)

\* the fetch phase has gone through for the second time
SecondFetchDone == run = 2 /\ pc = "types" /\ ti > Len(ResourceTypes)

\* C14: when the fetch phase has gone through a second time on the same day and its
\* walks have returned the descriptors the first time returned, the files under
\* out_dir are the files the first time left, with the same contents: every file was
\* written over, none was added and none is left behind.
C14_IdempotentRefetch ==
    (SecondFetchDone /\ listed = listed1) => files = files1

\* both types were fetched twice, with two or more resources each time
C14_Witness ==
    /\ SecondFetchDone
    /\ listed = listed1
    /\ Cardinality(DOMAIN files1) >= 2
    /\ Cardinality(typeDirs) = 2
    /\ \A d \in listed : ended[<<d[1], d[2].resource_id>>] = "ok"

\* the files under the directory of a type
FilesOf(type) == {q \in DOMAIN files : q[1] = TypeDir(today, type)}

ListedOf(type) == {d \in listed : d[1] = type}

\* every descriptor listed for the type was downloaded without an error
AllFetched(type) ==
    \A d \in ListedOf(type) :
        /\ <<type, d[2].resource_id>> \in DOMAIN ended
        /\ ended[<<type, d[2].resource_id>>] = "ok"

\* C15: two descriptors of one type with different resource ids have different target
\* paths, and the M descriptors of a type, once all are downloaded, have left M
\* files (the resource ids of a type are pairwise distinct in every listing of this
\* specification).
C15_DistinctTargets ==
    /\ \A d1 \in listed : \A d2 \in listed :
         (d1[1] = d2[1] /\ d1[2].resource_id # d2[2].resource_id) =>
             target_abspath(d1[1], d1[2], TypeDir(today, d1[1]))
                 # target_abspath(d2[1], d2[2], TypeDir(today, d2[1]))
    /\ \A i \in 1..Len(ResourceTypes) :
         AllFetched(ResourceTypes[i]) =>
             Cardinality(FilesOf(ResourceTypes[i]))
                 = Cardinality(ListedOf(ResourceTypes[i]))

\* a lowercase letter, a digit, or a run of them
IsLowerAlnum(c) ==
    /\ c \notin (Punctuation \cup Separators \cup {"_"})
    /\ Normalize(<<c>>) = <<c>>
    /\ lower(c) = c

\* an id of lowercase letters and digits, with single hyphens between them at most
PlainId(id) ==
    /\ id # <<>>
    /\ \A i \in 1..Len(id) :
         \/ IsLowerAlnum(id[i])
         \/ /\ id[i] = "-"
            /\ 1 < i /\ i < Len(id)
            /\ IsLowerAlnum(id[i - 1]) /\ IsLowerAlnum(id[i + 1])

\* C15, amended: two descriptors of one type with different resource ids, both of
\* lowercase letters, digits and single hyphens between them, have different target
\* paths whatever their titles, and the M descriptors of a type with such ids, once
\* all are downloaded, have left M files.
C15_DistinctTargetsOfPlainIds ==
    /\ \A d1 \in listed : \A d2 \in listed :
         (/\ d1[1] = d2[1]
          /\ d1[2].resource_id # d2[2].resource_id
          /\ PlainId(d1[2].resource_id)
          /\ PlainId(d2[2].resource_id)) =>
             target_abspath(d1[1], d1[2], TypeDir(today, d1[1]))
                 # target_abspath(d2[1], d2[2], TypeDir(today, d2[1]))
    /\ \A i \in 1..Len(ResourceTypes) :
         (/\ AllFetched(ResourceTypes[i])
          /\ \A d \in ListedOf(ResourceTypes[i]) : PlainId(d[2].resource_id)) =>
             Cardinality(FilesOf(ResourceTypes[i]))
                 = Cardinality(ListedOf(ResourceTypes[i]))

\* the two resources "a" and "a-b" of a type, of the same name, were both downloaded
C15_Witness ==
    /\ AllFetched(ResourceTypes[1])
    /\ \E d1 \in ListedOf(ResourceTypes[1]) : \E d2 \in ListedOf(ResourceTypes[1]) :
         /\ d1[2].resource_id = <<"a">>
         /\ d2[2].resource_id = <<"a", "-", "b">>
         /\ d1[2].title = d2[2].title
         /\ d1[2].title # <<"None">>

\* the executors that are downloading
InFlight == {e \in 0..MaxParallel : dl[e] # Idle}

\* C16: with --parallel n > 1 no descriptor is being downloaded by two workers, at
\* most n downloads are in flight, and downloads overlap: while a download is in
\* flight and a descriptor of the list is still to be dispatched, the main process
\* can dispatch it.
C16_ParallelDownloads ==
    args.parallel > 1 =>
        /\ \A e1 \in InFlight : \A e2 \in InFlight : dl[e1].r = dl[e2].r => e1 = e2
        /\ Cardinality(InFlight) <= args.parallel
        /\ (InFlight # {} /\ ri < Len(resource_list)) => ENABLED PoolApply

\* C17: the run date is the date of the day the process started on, also after the
\* wall clock has passed midnight, and every name and the cutoff come from it: every
\* file is under the folder of the run date and carries the run date in its name,
\* every download in flight writes under that folder, the members of the tarball the
\* run has written are under the run date, and every folder chosen for removal is
\* dated delete_days or more before the run date.
C17_RunDateFixed ==
    /\ today = StartDay
    /\ \A q \in DOMAIN files :
         /\ q[1][1] = isoformat(today)
         /\ q[2][Len(q[2]) - 1] = DateToken(isoformat(today))
    /\ \A e \in InFlight : dl[e].out_dir[1] = isoformat(today)
    /\ typeDirs # {} => isoformat(today) \in folders
    /\ (tar.exists /\ tar # PriorTar) =>
         \A a \in DOMAIN tar.members : a[1] = isoformat(today)
    /\ \A fn \in removed \cup {to_delete[i] : i \in 1..Len(to_delete)} :
         fromisoformat(fn).date <= today - args.delete_days

\* the run has ended on the day after it started, having written files and a tarball
\* and removed an old folder
C17_Witness ==
    /\ pc = "exit"
    /\ error = NoError
    /\ clock > today
    /\ DOMAIN files # {}
    /\ tar.exists
    /\ removed # {}
    /\ isoformat(clock) \notin folders

\* create_tarball has written the tarball of this run
TarballWritten ==
    /\ args.tarball
    /\ \/ pc \in {"prune", "delete"}
       \/ pc = "exit" /\ error.at \in {"none", "prune"}

\* C18: with delete_days >= 1 remove_old_directories neither chooses nor removes the
\* folder of the run date or a folder dated later: that folder, the files the run
\* has written under it and the tarball the run has written in it stay as they are.
C18_CurrentRunKept ==
    args.delete_days >= 1 =>
        /\ \A fn \in removed \cup {to_delete[i] : i \in 1..Len(to_delete)} :
             fromisoformat(fn).date < today
        /\ typeDirs # {} => isoformat(today) \in folders
        /\ TarballWritten =>
             /\ isoformat(today) \in folders
             /\ tar.exists
             /\ DOMAIN tar.members = ExpectedMembers

\* remove_old_directories has removed an old folder and has left the folder of the
\* run date, with its files and its tarball, and a folder dated tomorrow
C18_Witness ==
    /\ pc = "exit"
    /\ error = NoError
    /\ args.delete_days >= 1
    /\ removed # {}
    /\ {isoformat(today), isoformat(today + 1)} \subseteq folders
    /\ DOMAIN files # {}
    /\ tar.exists

\* the run has failed before remove_old_directories
FailedBeforeRemoval == error.at \in {"listing", "download", "tarball"}

\* C19: a run that an error of a listing request, of a download (its GET or its
\* write) or of create_tarball has ended is over at that point:
\* remove_old_directories has not listed out_dir, has chosen no folder and has
\* removed none.
C19_FailedRunNeverPrunes ==
    FailedBeforeRemoval =>
        /\ pc = "exit"
        /\ folder_names = {}
        /\ to_delete = <<>>
        /\ removed = {}
        /\ reported = {}

\* create_tarball has failed in a run with delete_days >= 1 while out_dir holds a
\* folder old enough to be removed
C19_Witness ==
    /\ error.at = "tarball"
    /\ args.delete_days >= 1
    /\ folders # NoDir
    /\ \E fn \in DateNamed(folders) : fromisoformat(fn).date <= today - args.delete_days

====
